---- MODULE Spec2Model ----
(***************************************************************************)
(* Model of src/src/services/replaceable-event-requester.ts:               *)
(* ReplaceableEventRelayLoader (one per relay) and                         *)
(* ReplaceableEventLoaderService (the singleton that owns the central      *)
(* cells, the loaders and the IndexedDB cache).                            *)
(*                                                                         *)
(* Strings that the code builds and takes apart (coordinates) are          *)
(* sequences of one-character strings, so that createCoordinate and the    *)
(* split(":") in update() are computed as the code computes them.          *)
(***************************************************************************)
EXTENDS Integers, Sequences, FiniteSets, TLC

\* ---------------------------------------------------------------- bounds
MaxEvents == 3
MaxRequests == 2
MaxNow == 60001
MaxMergeLen == 3
MaxLiveEvents == 1
MaxLiveRequests == 2

\* ------------------------------------------------------ program constants
\* dayjs().subtract(1, "minute"), in milliseconds
TimeoutMs == 60000

None == [none |-> TRUE]

\* ------------------------------------------------------------ input sets
Relays == {"r1", "r2"}
RelayLists == {<<"r1">>, <<"r1", "r2">>}

\* (kind, pubkey, d) triples that callers ask for; d = <<>> is "no d"
CoordInputs ==
  { [kind |-> 30023, pubkey |-> <<"a">>, d |-> <<"d">>] }

\* created_at values of the objects the environment can deliver, with the
\* ids of the distinct objects that carry them. S is the object an earlier
\* session can have left in the store (it ties with X), W ties with Z and is
\* used by the merge-order experiment only
ObjectIds == {"X", "Y", "Z"}
CreatedAt(id) ==
  CASE id = "X" -> 100
    [] id = "Y" -> 50
    [] id = "Z" -> 150
    [] id = "W" -> 150
    [] id = "S" -> 100

\* steps by which the wall clock can advance between two tasks (ms)
TickSteps == {60000, 60001}

\* Call by value: v is evaluated once and Op runs on the result. Handlers
\* take the state they run in this way, recursive helpers their arguments.
Strict(v, Op(_)) == CHOOSE r \in { Op(x) : x \in {v} } : TRUE

\* --------------------------------------------------------- string helpers
Digits == <<"0", "1", "2", "3", "4", "5", "6", "7", "8", "9">>

RECURSIVE NumToStr(_)
NumToStr(v) ==
  Strict(v, LAMBDA n :
    IF n < 10 THEN <<Digits[n + 1]>>
    ELSE NumToStr(n \div 10) \o <<Digits[(n % 10) + 1]>>)

\* createCoordinate without the test of d: the separator is always appended
createCoordinateAlwaysD(kind, pubkey, d) ==
  NumToStr(kind) \o <<":">> \o pubkey \o <<":">> \o d

\* `${kind}:${pubkey}${d ? ":" + d : ""}`
createCoordinate(kind, pubkey, d) ==
  NumToStr(kind) \o <<":">> \o pubkey \o (IF d # <<>> THEN <<":">> \o d ELSE <<>>)

\* the coordinate of an object: its own kind, author and d tag
getEventCoordinate(event) == createCoordinate(event.kind, event.pubkey, event.d)

Cords == { createCoordinate(c.kind, c.pubkey, c.d) : c \in CoordInputs }

\* the object with id i of coordinate c
Object(c, i) ==
  [kind |-> c.kind, pubkey |-> c.pubkey, d |-> c.d, id |-> i, created_at |-> CreatedAt(i)]

\* the objects of the environment
Objects == { Object(c, i) : c \in CoordInputs, i \in ObjectIds }

ObjectsOf(cord) == { e \in Objects : getEventCoordinate(e) = cord }

SetMax(S) == CHOOSE x \in S : \A y \in S : y <= x

SeqToSet(s) == { s[i] : i \in DOMAIN s }


\* JS String.prototype.split(":"): every separator splits
RECURSIVE SplitFrom(_, _)
SplitFrom(str, part) ==
  Strict(<<str, part>>, LAMBDA p :
    LET s == p[1]
        acc == p[2]
    IN  IF s = <<>> THEN <<acc>>
        ELSE IF Head(s) = ":" THEN <<acc>> \o SplitFrom(Tail(s), <<>>)
        ELSE SplitFrom(Tail(s), Append(acc, Head(s))))

Split(s) == SplitFrom(s, <<>>)

DigitValue(ch) == (CHOOSE i \in 1..10 : Digits[i] = ch) - 1

\* parseInt on a string of decimal digits
RECURSIVE parseIntFrom(_, _)
parseIntFrom(str, n) ==
  Strict(<<str, n>>, LAMBDA p :
    LET s == p[1]
        acc == p[2]
    IN  IF s = <<>> THEN acc ELSE parseIntFrom(Tail(s), acc * 10 + DigitValue(Head(s))))

parseInt(s) == parseIntFrom(s, 0)

\* ------------------------------------------------------------------ state
VARIABLES
  events,           \* service: coordinate -> value of the central Subject
  loaders,          \* service: relays whose loader has been created
  upstream,         \* service: coordinate -> relays whose cell the central cell is connected to
  loadCacheDedupe,  \* service: coordinate -> "none" | "pending" | "rejected" promise
  thens,            \* callbacks attached to the pending promise by requestEvent
  store,            \* IndexedDB "replaceableEvents": coordinate -> record or None
  dbQueue,          \* IndexedDB requests issued and not yet completed, in issue order
  lEvents,          \* loader: relay -> coordinate -> value of the local Subject
  requestNext,      \* loader: relay -> Set<string> in insertion order
  requested,        \* loader: relay -> Map<string, Date> in insertion order
  subState,         \* loader: relay -> state of its NostrSubscription
  query,            \* loader: relay -> query last given to setQuery
  now,              \* wall clock, ms
  initCall,         \* whether Subject.subscribe calls a new listener with the held value
  delivered,        \* history: coordinate -> greatest created_at offered to the central merge rule (0: none)
  putFailed,        \* history: coordinates with a db.put that rejected
  lastUpdate,       \* history: relay -> what the latest update() of its loader did:
                    \*   calls made on the subscription, coordinates removed by timeout
  nEvents,          \* number of objects the environment has delivered
  nRequests,        \* number of requestEvent calls made
  mIn, mA, mB, mPosA, mOrdB, \* merge-order experiment (SpecMerge)
  cIn, cStr, cOut   \* coordinate round trip (SpecCoord): triples, their strings, the decoded triples

svars == <<events, loaders, upstream, loadCacheDedupe, thens, store, dbQueue, lEvents,
           requestNext, requested, subState, query, now, initCall, delivered,
           putFailed, lastUpdate, nEvents, nRequests>>
cvars == <<cIn, cStr, cOut>>
mvars == <<mIn, mA, mB, mPosA, mOrdB, cvars>>
vars == <<svars, mvars>>

\* the program state as one record, so that a handler is an operator from
\* state to state and handlers can call each other as the code does
State ==
  [events |-> events, loaders |-> loaders, upstream |-> upstream,
   loadCacheDedupe |-> loadCacheDedupe, thens |-> thens, store |-> store,
   dbQueue |-> dbQueue, lEvents |-> lEvents, requestNext |-> requestNext,
   requested |-> requested, subState |-> subState, query |-> query, now |-> now,
   initCall |-> initCall, delivered |-> delivered, putFailed |-> putFailed,
   lastUpdate |-> lastUpdate]

\* the variables take the values of the record that a handler returns
Commit(t) ==
  \E s \in {t} :
    /\ events' = s.events
    /\ loaders' = s.loaders
    /\ upstream' = s.upstream
    /\ loadCacheDedupe' = s.loadCacheDedupe
    /\ thens' = s.thens
    /\ store' = s.store
    /\ dbQueue' = s.dbQueue
    /\ lEvents' = s.lEvents
    /\ requestNext' = s.requestNext
    /\ requested' = s.requested
    /\ subState' = s.subState
    /\ query' = s.query
    /\ now' = s.now
    /\ initCall' = s.initCall
    /\ delivered' = s.delivered
    /\ putFailed' = s.putFailed
    /\ lastUpdate' = s.lastUpdate


\* Set.prototype.add on a Set kept in insertion order
SetAdd(seq, x) == IF x \in SeqToSet(seq) THEN seq ELSE Append(seq, x)

\* ------------------------------------------- ReplaceableEventLoaderService
GetOp(cord) == [op |-> "get", addr |-> cord, event |-> None, created |-> 0]
PutOp(cord, event, created) == [op |-> "put", addr |-> cord, event |-> event, created |-> created]

\* saveToCache: db.put of {addr, event, created: dayjs().unix()}
saveToCache(t, cord, event) ==
  Strict(t, LAMBDA s :
    [s EXCEPT !.dbQueue = Append(@, PutOp(cord, event, s.now \div 1000))])

\* sub.next(event) on the central Subject of cord
subNext(t, cord, event) ==
  Strict(t, LAMBDA s :
    [s EXCEPT !.events[cord] = event])

\* the test of handleEvent with >= in place of >
ServiceAcceptsOrEqual(current, event) ==
  current = None \/ event.created_at >= current.created_at

\* !current || event.created_at > current.created_at   (handleEvent)
ServiceAccepts(current, event) ==
  current = None \/ event.created_at > current.created_at

\* handleEvent that persists the object whether or not the cell took it
handleEventSaveAlways(t, event) ==
  Strict(t, LAMBDA s :
    LET cord == getEventCoordinate(event)
        s1 == [s EXCEPT !.delivered[cord] = IF event.created_at > @ THEN event.created_at ELSE @]
    IN  IF ServiceAccepts(s.events[cord], event)
          THEN saveToCache(subNext(s1, cord, event), cord, event)
          ELSE saveToCache(s1, cord, event))

\* ReplaceableEventLoaderService.handleEvent
handleEvent(t, event) ==
  Strict(t, LAMBDA s :
    LET cord == getEventCoordinate(event)
        s1 == [s EXCEPT !.delivered[cord] = IF event.created_at > @ THEN event.created_at ELSE @]
    IN  IF ServiceAccepts(s.events[cord], event)
          THEN saveToCache(subNext(s1, cord, event), cord, event)
          ELSE s1)

\* loadFromCache without the dedupe map lookup
loadFromCacheNoDedupe(t, cord) ==
  Strict(t, LAMBDA s :
    [s EXCEPT !.dbQueue = Append(@, GetOp(cord)),
              !.loadCacheDedupe[cord] = "pending"])

\* loadFromCache: the promise in the dedupe map is returned when there is
\* one (pending or rejected), otherwise db.get is issued
loadFromCache(t, cord) ==
  Strict(t, LAMBDA s :
    IF s.loadCacheDedupe[cord] # "none" THEN s
    ELSE [s EXCEPT !.dbQueue = Append(@, GetOp(cord)),
                   !.loadCacheDedupe[cord] = "pending"])

\* the test of the merge handler turned around
MergeAcceptsOlder(current, event) ==
  current = None \/ event.created_at < current.created_at

\* !current || event.created_at > current.created_at   (merge handler)
MergeAccepts(current, event) ==
  current = None \/ event.created_at > current.created_at

\* the handler given to connectWithHandler in requestEventFromRelays
mergeHandler(t, cord, event) ==
  Strict(t, LAMBDA s :
    LET s1 == [s EXCEPT !.delivered[cord] = IF event.created_at > @ THEN event.created_at ELSE @]
    IN  IF MergeAccepts(s.events[cord], event)
          THEN saveToCache(subNext(s1, cord, event), cord, event)
          ELSE s1)

\* Subject.connectWithHandler: the central cell becomes a listener of the
\* loader's cell, once per loader; a Subject whose subscribe calls the new
\* listener with the held value hands that value to the handler right away
connectWithHandler(t, cord, r) ==
  Strict(t, LAMBDA s :
    IF r \in s.upstream[cord] THEN s
    ELSE LET s1 == [s EXCEPT !.upstream[cord] = @ \cup {r}]
         IN  IF s.initCall /\ s.lEvents[r][cord] # None
               THEN mergeHandler(s1, cord, s.lEvents[r][cord])
               ELSE s1)

\* ReplaceableEventRelayLoader.getEvent: events.get(cord) makes the Subject
\* if there is none; a Subject without a value and no Subject are both None
loaderGetEvent(t, r, kind, pubkey, d) ==
  Strict(t, LAMBDA s :
    LET cord == createCoordinate(kind, pubkey, d)
    IN  [s EXCEPT !.lEvents[r][cord] = @])

\* requestEvent without the test of the cell's value
loaderRequestEventAlways(t, r, kind, pubkey, d) ==
  Strict(t, LAMBDA s :
    LET cord == createCoordinate(kind, pubkey, d)
    IN  [s EXCEPT !.requestNext[r] = SetAdd(@, cord)])

\* ReplaceableEventRelayLoader.requestEvent
loaderRequestEvent(t, r, kind, pubkey, d) ==
  Strict(t, LAMBDA s :
    LET cord == createCoordinate(kind, pubkey, d)
    IN  IF s.lEvents[r][cord] = None
          THEN [s EXCEPT !.requestNext[r] = SetAdd(@, cord)]
          ELSE s)

\* requestEventFromRelays that leaves the loop after the first relay
requestEventFromRelaysFirstOnly(t, relays, kind, pubkey, d) ==
  Strict(t, LAMBDA s :
    IF relays = <<>> THEN s
    ELSE LET r == Head(relays)
             cord == createCoordinate(kind, pubkey, d)
             s1 == [s EXCEPT !.loaders = @ \cup {r}]
             s2 == loaderRequestEvent(s1, r, kind, pubkey, d)
         IN  connectWithHandler(s2, cord, r))

\* requestEventFromRelays: for each relay, get or create its loader, ask it
\* for the coordinate and connect the central cell to the loader's cell
RECURSIVE requestEventFromRelays(_, _, _, _, _)
requestEventFromRelays(t, relays, kind, pubkey, d) ==
  Strict(t, LAMBDA s :
    IF relays = <<>> THEN s
    ELSE LET r == Head(relays)
             cord == createCoordinate(kind, pubkey, d)
             s1 == [s EXCEPT !.loaders = @ \cup {r}]
             s2 == loaderRequestEvent(s1, r, kind, pubkey, d)
             s3 == connectWithHandler(s2, cord, r)
         IN  requestEventFromRelays(s3, Tail(relays), kind, pubkey, d))

\* requestEvent that asks the relays only when alwaysRequest is NOT set
requestEventInverted(t, relays, kind, pubkey, d, alwaysRequest) ==
  Strict(t, LAMBDA s :
    LET cord == createCoordinate(kind, pubkey, d)
        s1 == IF s.events[cord] = None
                THEN LET s0 == loadFromCache(s, cord)
                     IN  IF s0.loadCacheDedupe[cord] = "pending"
                           THEN [s0 EXCEPT !.thens[cord] =
                                   Append(@, [relays |-> relays, kind |-> kind,
                                              pubkey |-> pubkey, d |-> d])]
                           ELSE s0
                ELSE s
    IN  IF ~alwaysRequest THEN requestEventFromRelays(s1, relays, kind, pubkey, d) ELSE s1)

\* ReplaceableEventLoaderService.requestEvent; the callback given to
\* .then() is kept with the pending promise (a rejected promise never
\* calls it)
requestEvent(t, relays, kind, pubkey, d, alwaysRequest) ==
  Strict(t, LAMBDA s :
    LET cord == createCoordinate(kind, pubkey, d)
        s1 == IF s.events[cord] = None
                THEN LET s0 == loadFromCache(s, cord)
                     IN  IF s0.loadCacheDedupe[cord] = "pending"
                           THEN [s0 EXCEPT !.thens[cord] =
                                   Append(@, [relays |-> relays, kind |-> kind,
                                              pubkey |-> pubkey, d |-> d])]
                           ELSE s0
                ELSE s
    IN  IF alwaysRequest THEN requestEventFromRelays(s1, relays, kind, pubkey, d) ELSE s1)

\* the callbacks of requestEvent run with the outcome of the read
RECURSIVE runThens(_, _, _)
runThens(t, cbs, loaded) ==
  Strict(t, LAMBDA s :
    IF cbs = <<>> THEN s
    ELSE LET cb == Head(cbs)
             s1 == IF ~loaded
                     THEN requestEventFromRelays(s, cb.relays, cb.kind, cb.pubkey, cb.d)
                     ELSE s
         IN  runThens(s1, Tail(cbs), loaded))

\* the read resolved, but the callbacks wrongly run as if it had found an entry
getResolvedAsHit(t, cord, cached) ==
  Strict(t, LAMBDA s :
    LET s1 == [s EXCEPT !.loadCacheDedupe[cord] = "none", !.thens[cord] = <<>>]
        s2 == IF cached # None THEN handleEvent(s1, cached.event) ELSE s1
    IN  runThens(s2, s.thens[cord], TRUE))

\* db.get resolved with `cached`: the callback of loadFromCache, then the
\* callbacks that requestEvent attached to its promise
getResolved(t, cord, cached) ==
  Strict(t, LAMBDA s :
    LET s1 == [s EXCEPT !.loadCacheDedupe[cord] = "none", !.thens[cord] = <<>>]
        s2 == IF cached # None THEN handleEvent(s1, cached.event) ELSE s1
    IN  runThens(s2, s.thens[cord], cached # None))

\* db.get rejected: the callback of loadFromCache does not run, so the
\* rejected promise stays in the dedupe map and no .then callback runs
getRejected(t, cord) ==
  Strict(t, LAMBDA s :
    [s EXCEPT !.loadCacheDedupe[cord] = "rejected", !.thens[cord] = <<>>])


\* db.put succeeded: the record replaces the entry of its key; nothing
\* runs after the await in saveToCache
putResolved(t, op) ==
  Strict(t, LAMBDA s :
    [s EXCEPT !.dbQueue = Tail(@),
              !.store[op.addr] = [event |-> op.event, created |-> op.created]])

\* a failed write that takes the object out of the cell again
putRejectedRollsBack(t, op) ==
  Strict(t, LAMBDA s :
    [s EXCEPT !.dbQueue = Tail(@), !.putFailed = @ \cup {op.addr},
              !.events[op.addr] = None])

\* db.put failed: the promise of saveToCache rejects; no caller awaits or
\* catches it, the store and the memory stay as they are
putRejected(t, op) ==
  Strict(t, LAMBDA s :
    [s EXCEPT !.dbQueue = Tail(@), !.putFailed = @ \cup {op.addr}])

\* --------------------------------------------- ReplaceableEventRelayLoader
\* Map.prototype.has / delete on a Map kept in insertion order
MapHas(m, cord) == \E i \in 1..Len(m) : m[i].cord = cord
MapDelete(m, cord) == SelectSeq(m, LAMBDA e : e.cord # cord)
MapKeys(m) == { m[i].cord : i \in 1..Len(m) }

\* !current || event.created_at > current.created_at   (loader handleEvent)
LoaderAccepts(current, event) ==
  current = None \/ event.created_at > current.created_at

\* sub.next(event) on the loader's Subject of cord: the value is stored and
\* the listeners run, i.e. the merge handler of the central cell if connected
loaderNext(t, r, cord, event) ==
  Strict(t, LAMBDA s :
    LET s1 == [s EXCEPT !.lEvents[r][cord] = event]
    IN  IF r \in s.upstream[cord] THEN mergeHandler(s1, cord, event) ELSE s1)

\* handleEvent that takes the coordinate out of requested only when the
\* cell takes the object
loaderHandleEventDeleteOnAccept(t, r, event) ==
  Strict(t, LAMBDA s :
    LET cord == getEventCoordinate(event)
        s1 == [s EXCEPT !.requested[r] = MapDelete(@, cord)]
    IN  IF LoaderAccepts(s.lEvents[r][cord], event)
          THEN loaderNext(s1, r, cord, event)
          ELSE s)

\* ReplaceableEventRelayLoader.handleEvent
loaderHandleEvent(t, r, event) ==
  Strict(t, LAMBDA s :
    LET cord == getEventCoordinate(event)
        s1 == [s EXCEPT !.requested[r] = MapDelete(@, cord)]
    IN  IF LoaderAccepts(s.lEvents[r][cord], event)
          THEN loaderNext(s1, r, cord, event)
          ELSE s1)

\* handleEOSE that clears requestNext as well
loaderHandleEOSEClearsNext(t, r) ==
  Strict(t, LAMBDA s :
    [s EXCEPT !.requested[r] = <<>>, !.requestNext[r] = <<>>])

\* ReplaceableEventRelayLoader.handleEOSE
loaderHandleEOSE(t, r) ==
  Strict(t, LAMBDA s :
    [s EXCEPT !.requested[r] = <<>>])

\* the first loop without the has() test: every coordinate of requestNext
\* is set anew, which replaces the date of one that is in requested
RECURSIVE moveNextRestamp(_, _, _)
moveNextRestamp(requestNextSet, requestedMap, date) ==
  Strict(<<requestNextSet, requestedMap>>, LAMBDA p :
    LET next == p[1]
        req == p[2]
    IN  IF next = <<>> THEN req
        ELSE moveNextRestamp(Tail(next),
               IF \E i \in 1..Len(req) : req[i].cord = Head(next)
                 THEN [i \in 1..Len(req) |->
                         IF req[i].cord = Head(next) THEN [req[i] EXCEPT !.date = date]
                         ELSE req[i]]
                 ELSE Append(req, [cord |-> Head(next), date |-> date]),
               date))

\* first loop of update(): coordinates of requestNext that are not in
\* requested are set in requested with new Date()
RECURSIVE moveNext(_, _, _)
moveNext(requestNextSet, requestedMap, date) ==
  Strict(<<requestNextSet, requestedMap>>, LAMBDA p :
    LET next == p[1]
        req == p[2]
    IN  IF next = <<>> THEN req
        ELSE moveNext(Tail(next),
                      IF MapHas(req, Head(next)) THEN req
                      ELSE Append(req, [cord |-> Head(next), date |-> date]),
                      date))

\* the timeout test with "at or before" in place of "before"
IsExpiredOrSame(date, t) == date <= t - TimeoutMs

\* dayjs(date).isBefore(timeout), timeout = now - 1 minute
IsExpired(date, t) == date < t - TimeoutMs

\* second loop of update(): entries older than the timeout are deleted
pruneRequests(req, t) == SelectSeq(req, LAMBDA e : ~IsExpired(e.date, t))

\* [kindStr, pubkey, d] = cord.split(":"); a missing part is undefined,
\* which the code only ever tests for truth, as it does the empty string
DecodeCord(cord) ==
  Strict(Split(cord), LAMBDA parts :
    [kind |-> parseInt(parts[1]),
     pubkey |-> IF Len(parts) >= 2 THEN parts[2] ELSE <<>>,
     d |-> IF Len(parts) >= 3 THEN parts[3] ELSE <<>>])

\* the loop with the query of a kind made anew for every coordinate, so
\* that it holds the last author and d of the kind only
RECURSIVE buildFiltersLastOnly(_, _)
buildFiltersLastOnly(requestedMap, filtersSoFar) ==
  Strict(<<requestedMap, filtersSoFar>>, LAMBDA p :
    LET req == p[1]
        filters == p[2]
    IN  IF req = <<>> THEN filters
        ELSE Strict(DecodeCord(Head(req).cord), LAMBDA c :
               LET new == [kinds |-> <<c.kind>>, authors |-> <<c.pubkey>>,
                           dTags |-> IF c.d # <<>> THEN <<c.d>> ELSE <<>>]
                   rest == [k \in (DOMAIN filters) \ {c.kind} |-> filters[k]]
               IN  buildFiltersLastOnly(Tail(req), rest @@ (c.kind :> new))))

\* the loop that builds `filters`: one NostrQuery per kind, authors pushed
\* for every coordinate, "#d" created and pushed only for a truthy d
\* (dTags = <<>> stands for a query without "#d")
RECURSIVE buildFilters(_, _)
buildFilters(requestedMap, filtersSoFar) ==
  Strict(<<requestedMap, filtersSoFar>>, LAMBDA p :
    LET req == p[1]
        filters == p[2]
    IN  IF req = <<>> THEN filters
        ELSE Strict(DecodeCord(Head(req).cord), LAMBDA c :
               LET old == IF c.kind \in DOMAIN filters THEN filters[c.kind]
                          ELSE [kinds |-> <<c.kind>>, authors |-> <<>>, dTags |-> <<>>]
                   new == [old EXCEPT !.authors = Append(@, c.pubkey),
                                      !.dTags = IF c.d # <<>> THEN Append(@, c.d) ELSE @]
                   rest == [k \in (DOMAIN filters) \ {c.kind} |-> filters[k]]
               IN  buildFilters(Tail(req), rest @@ (c.kind :> new))))

\* Object.values(filters): integer keys in ascending order
RECURSIVE objectValues(_)
objectValues(record) ==
  Strict(record, LAMBDA filters :
    IF DOMAIN filters = {} THEN <<>>
    ELSE LET k == CHOOSE x \in DOMAIN filters : \A y \in DOMAIN filters : x <= y
         IN  <<filters[k]>> \o objectValues([j \in (DOMAIN filters) \ {k} |-> filters[j]]))

EmptyFilters == [k \in {} |-> 0]

BuildQuery(req) == objectValues(buildFilters(req, EmptyFilters))

\* an update() that has called nothing and timed nothing out
NoCalls == [calls |-> {}, expired |-> {}]

\* NostrSubscription: setQuery, open, close
setQuery(t, r, q) ==
  Strict(t, LAMBDA s :
    [s EXCEPT !.query[r] = q, !.lastUpdate[r].calls = @ \cup {"setQuery"}])

subOpen(t, r) ==
  Strict(t, LAMBDA s :
    [s EXCEPT !.subState[r] = "OPEN", !.lastUpdate[r].calls = @ \cup {"open"}])

subClose(t, r) ==
  Strict(t, LAMBDA s :
    [s EXCEPT !.subState[r] = "CLOSED", !.lastUpdate[r].calls = @ \cup {"close"}])

\* update() that leaves the subscription open when requested has become empty
loaderUpdateKeepsOpen(t, r) ==
  Strict(t, LAMBDA s :
    LET moved == moveNext(s.requestNext[r], s.requested[r], s.now)
        pruned == pruneRequests(moved, s.now)
        needsUpdate == moved # s.requested[r] \/ pruned # moved
        s1 == [s EXCEPT !.requestNext[r] = <<>>, !.requested[r] = pruned,
                        !.lastUpdate[r] = [calls |-> {},
                                           expired |-> MapKeys(moved) \ MapKeys(pruned)]]
    IN  IF needsUpdate /\ Len(pruned) > 0
          THEN LET s2 == setQuery(s1, r, BuildQuery(pruned))
               IN  IF s2.subState[r] # "OPEN" THEN subOpen(s2, r) ELSE s2
          ELSE s1)

\* update() without the needsUpdate test: the query is set on every call
loaderUpdateAlwaysSets(t, r) ==
  Strict(t, LAMBDA s :
    LET moved == moveNext(s.requestNext[r], s.requested[r], s.now)
        pruned == pruneRequests(moved, s.now)
        s1 == [s EXCEPT !.requestNext[r] = <<>>, !.requested[r] = pruned,
                        !.lastUpdate[r] = [calls |-> {},
                                           expired |-> MapKeys(moved) \ MapKeys(pruned)]]
    IN  IF Len(pruned) > 0
          THEN LET s2 == setQuery(s1, r, BuildQuery(pruned))
               IN  IF s2.subState[r] # "OPEN" THEN subOpen(s2, r) ELSE s2
          ELSE IF s1.subState[r] = "OPEN" THEN subClose(s1, r) ELSE s1)

\* update() that sets the query only while the subscription is not open
loaderUpdateSetsWhenClosed(t, r) ==
  Strict(t, LAMBDA s :
    LET moved == moveNext(s.requestNext[r], s.requested[r], s.now)
        pruned == pruneRequests(moved, s.now)
        needsUpdate == moved # s.requested[r] \/ pruned # moved
        s1 == [s EXCEPT !.requestNext[r] = <<>>, !.requested[r] = pruned,
                        !.lastUpdate[r] = [calls |-> {},
                                           expired |-> MapKeys(moved) \ MapKeys(pruned)]]
    IN  IF needsUpdate
          THEN IF Len(pruned) > 0
                 THEN IF s1.subState[r] # "OPEN"
                        THEN subOpen(setQuery(s1, r, BuildQuery(pruned)), r)
                        ELSE s1
                 ELSE IF s1.subState[r] = "OPEN" THEN subClose(s1, r) ELSE s1
          ELSE s1)

\* update() that builds the query from the entries it has just added
loaderUpdateQueryOfNew(t, r) ==
  Strict(t, LAMBDA s :
    LET moved == moveNext(s.requestNext[r], s.requested[r], s.now)
        pruned == pruneRequests(moved, s.now)
        needsUpdate == moved # s.requested[r] \/ pruned # moved
        s1 == [s EXCEPT !.requestNext[r] = <<>>, !.requested[r] = pruned,
                        !.lastUpdate[r] = [calls |-> {},
                                           expired |-> MapKeys(moved) \ MapKeys(pruned)]]
    IN  IF needsUpdate
          THEN IF Len(pruned) > 0
                 THEN LET s2 == setQuery(s1, r,
                                  BuildQuery(SelectSeq(pruned, LAMBDA e :
                                               ~MapHas(s.requested[r], e.cord))))
                      IN  IF s2.subState[r] # "OPEN" THEN subOpen(s2, r) ELSE s2
                 ELSE IF s1.subState[r] = "OPEN" THEN subClose(s1, r) ELSE s1
          ELSE s1)

\* ReplaceableEventRelayLoader.update
loaderUpdate(t, r) ==
  Strict(t, LAMBDA s :
    LET moved == moveNext(s.requestNext[r], s.requested[r], s.now)
        pruned == pruneRequests(moved, s.now)
        needsUpdate == moved # s.requested[r] \/ pruned # moved
        s1 == [s EXCEPT !.requestNext[r] = <<>>, !.requested[r] = pruned,
                        !.lastUpdate[r] = [calls |-> {},
                                           expired |-> MapKeys(moved) \ MapKeys(pruned)]]
    IN  IF needsUpdate
          THEN IF Len(pruned) > 0
                 THEN LET s2 == setQuery(s1, r, BuildQuery(pruned))
                      IN  IF s2.subState[r] # "OPEN" THEN subOpen(s2, r) ELSE s2
                 ELSE IF s1.subState[r] = "OPEN" THEN subClose(s1, r) ELSE s1
          ELSE s1)

\* ReplaceableEventLoaderService.update: every loader's update()
RECURSIVE updateLoaders(_, _)
updateLoaders(t, rs) ==
  Strict(t, LAMBDA s :
    IF rs = {} THEN s
    ELSE LET r == CHOOSE x \in rs : TRUE
         IN  updateLoaders(loaderUpdate(s, r), rs \ {r}))

serviceUpdate(s) == updateLoaders(s, s.loaders)

\* does the query select the coordinate (kind, pubkey, d)?
QuerySelects(q, c) ==
  \E i \in 1..Len(q) :
    /\ c.kind \in SeqToSet(q[i].kinds)
    /\ c.pubkey \in SeqToSet(q[i].authors)
    /\ (q[i].dTags = <<>> \/ c.d \in SeqToSet(q[i].dTags))


\* ------------------------------------------------------------------- Init
\* what an earlier session can have left in the store for a coordinate
StoredBefore(cord) ==
  {None} \cup { [event |-> Object(c, "S"), created |-> 0] :
                 c \in { x \in CoordInputs : createCoordinate(x.kind, x.pubkey, x.d) = cord } }

SInit ==
  /\ events = [c \in Cords |-> None]
  /\ loaders = {}
  /\ upstream = [c \in Cords |-> {}]
  /\ loadCacheDedupe = [c \in Cords |-> "none"]
  /\ thens = [c \in Cords |-> <<>>]
  /\ store \in { f \in [Cords -> UNION { StoredBefore(c) : c \in Cords }] :
                   \A c \in Cords : f[c] \in StoredBefore(c) }
  /\ dbQueue = <<>>
  /\ lEvents = [r \in Relays |-> [c \in Cords |-> None]]
  /\ requestNext = [r \in Relays |-> <<>>]
  /\ requested = [r \in Relays |-> <<>>]
  /\ subState = [r \in Relays |-> "CLOSED"]
  /\ query = [r \in Relays |-> <<>>]
  /\ now = 0
  /\ initCall \in BOOLEAN
  /\ delivered = [c \in Cords |-> 0]
  /\ putFailed = {}
  /\ lastUpdate = [r \in Relays |-> NoCalls]
  /\ nEvents = 0
  /\ nRequests = 0

CIdle ==
  /\ cIn = <<>>
  /\ cStr = <<>>
  /\ cOut = <<>>

MIdle ==
  /\ mIn = <<>>
  /\ mA = None
  /\ mB = None
  /\ mPosA = 0
  /\ mOrdB = <<>>
  /\ CIdle

Init == SInit /\ MIdle

\* ---------------------------------------------------------------- actions
\* a caller calls requestEvent(relays, kind, pubkey, d, alwaysRequest)
RequestEvent(relays, c, always) ==
  /\ nRequests < MaxRequests
  /\ Commit(requestEvent(State, relays, c.kind, c.pubkey, c.d, always))
  /\ nRequests' = nRequests + 1
  /\ UNCHANGED <<nEvents, mvars>>

\* the application hands an object to handleEvent
Ingest(event) ==
  /\ nEvents < MaxEvents
  /\ Commit(handleEvent(State, event))
  /\ nEvents' = nEvents + 1
  /\ UNCHANGED <<nRequests, mvars>>

\* the subscription of relay r emits onEvent
RelayEvent(r, event) ==
  /\ r \in loaders
  /\ subState[r] = "OPEN"
  /\ nEvents < MaxEvents
  /\ Commit(loaderHandleEvent(State, r, event))
  /\ nEvents' = nEvents + 1
  /\ UNCHANGED <<nRequests, mvars>>

\* the subscription of relay r emits onEOSE
RelayEOSE(r) ==
  /\ r \in loaders
  /\ subState[r] = "OPEN"
  /\ Commit(loaderHandleEOSE(State, r))
  /\ UNCHANGED <<nEvents, nRequests, mvars>>

\* the 2 second interval: replaceableEventLoaderService.update()
Update ==
  /\ Commit(serviceUpdate(State))
  /\ UNCHANGED <<nEvents, nRequests, mvars>>

\* the oldest outstanding IndexedDB request is a get and resolves
DbGetOk ==
  /\ dbQueue # <<>>
  /\ Head(dbQueue).op = "get"
  /\ LET cord == Head(dbQueue).addr
         s0 == [State EXCEPT !.dbQueue = Tail(@)]
     IN  Commit(getResolved(s0, cord, store[cord]))
  /\ UNCHANGED <<nEvents, nRequests, mvars>>

\* the oldest outstanding IndexedDB request is a get and rejects
DbGetFail ==
  /\ dbQueue # <<>>
  /\ Head(dbQueue).op = "get"
  /\ LET cord == Head(dbQueue).addr
         s0 == [State EXCEPT !.dbQueue = Tail(@)]
     IN  Commit(getRejected(s0, cord))
  /\ UNCHANGED <<nEvents, nRequests, mvars>>

\* the oldest outstanding IndexedDB request is a put and succeeds
DbPutOk ==
  /\ dbQueue # <<>>
  /\ Head(dbQueue).op = "put"
  /\ Commit(putResolved(State, Head(dbQueue)))
  /\ UNCHANGED <<nEvents, nRequests, mvars>>

\* the oldest outstanding IndexedDB request is a put and rejects: the
\* promise of saveToCache rejects and nobody looks at it
DbPutFail ==
  /\ dbQueue # <<>>
  /\ Head(dbQueue).op = "put"
  /\ Commit(putRejected(State, Head(dbQueue)))
  /\ UNCHANGED <<nEvents, nRequests, mvars>>

\* time passes between two tasks
Tick(d) ==
  /\ now + d <= MaxNow
  /\ now' = now + d
  /\ UNCHANGED <<events, loaders, upstream, loadCacheDedupe, thens, store, dbQueue, lEvents,
                 requestNext, requested, subState, query, initCall, delivered,
                 putFailed, lastUpdate, nEvents, nRequests, mvars>>

DbStep == DbGetOk \/ DbGetFail \/ DbPutOk \/ DbPutFail

Next ==
  \/ \E rl \in RelayLists, c \in CoordInputs, a \in BOOLEAN : RequestEvent(rl, c, a)
  \/ \E e \in Objects : Ingest(e)
  \/ \E r \in Relays, e \in Objects : RelayEvent(r, e)
  \/ \E r \in Relays : RelayEOSE(r)
  \/ Update
  \/ DbGetOk
  \/ DbGetFail
  \/ DbPutOk
  \/ DbPutFail

\* the service within one instant of the clock
Spec == Init /\ [][Next]_vars

\* the service with the clock advancing between tasks
TimedNext ==
  \/ Next
  \/ \E d \in TickSteps : Tick(d)

SpecTimed == Init /\ [][TimedNext]_vars


\* ------------------------------------------------- merge-order experiment
\* One multiset of objects of one coordinate is delivered to two central
\* cells: to cell A in the order of mIn, to cell B in any order and with
\* repeated deliveries. Each delivery goes through the rule of handleEvent
\* or through the rule of the merge handler.
MaxRedeliver == 1

MergeCoord == CHOOSE c \in CoordInputs : TRUE
MergeObjects == { Object(MergeCoord, i) : i \in {"X", "Y", "Z", "W"} }

\* the value of the central cell after one delivery
mergeInto(current, event, viaSource) ==
  IF viaSource
    THEN (IF MergeAccepts(current, event) THEN event ELSE current)
    ELSE (IF ServiceAccepts(current, event) THEN event ELSE current)

MergeInit ==
  /\ SInit
  /\ store = [c \in Cords |-> None]
  /\ initCall = FALSE
  /\ mIn \in UNION { [1..n -> MergeObjects] : n \in 1..MaxMergeLen }
  /\ mA = None
  /\ mB = None
  /\ mPosA = 0
  /\ mOrdB = <<>>
  /\ CIdle

MergeDeliverA(viaSource) ==
  /\ mPosA < Len(mIn)
  /\ mPosA' = mPosA + 1
  /\ mA' = mergeInto(mA, mIn[mPosA + 1], viaSource)
  /\ UNCHANGED <<svars, mIn, mB, mOrdB, cvars>>

MergeDeliverB(i, viaSource) ==
  /\ i \in 1..Len(mIn)
  /\ i \notin SeqToSet(mOrdB)
  /\ mOrdB' = Append(mOrdB, i)
  /\ mB' = mergeInto(mB, mIn[i], viaSource)
  /\ UNCHANGED <<svars, mIn, mA, mPosA, cvars>>

MergeRedeliverB(i, viaSource) ==
  /\ i \in SeqToSet(mOrdB)
  /\ Len(mOrdB) < Cardinality(SeqToSet(mOrdB)) + MaxRedeliver
  /\ mOrdB' = Append(mOrdB, i)
  /\ mB' = mergeInto(mB, mIn[i], viaSource)
  /\ UNCHANGED <<svars, mIn, mA, mPosA, cvars>>

MergeNext ==
  \/ \E v \in BOOLEAN : MergeDeliverA(v)
  \/ \E i \in 1..MaxMergeLen, v \in BOOLEAN : MergeDeliverB(i, v)
  \/ \E i \in 1..MaxMergeLen, v \in BOOLEAN : MergeRedeliverB(i, v)

SpecMerge == MergeInit /\ [][MergeNext]_vars

MergeDone == mPosA = Len(mIn) /\ SeqToSet(mOrdB) = 1..Len(mIn)

\* ================================================================= claims
TimesOf(S) == { o.created_at : o \in S }

\* C1: the central cell of a coordinate changes value only to an object
\* whose created_at is strictly greater than the one it held, and a cell
\* that holds a value never becomes empty again.
C1_CellOnlyMovesToNewer ==
  [][\A c \in Cords :
       events'[c] # events[c] =>
         /\ events'[c] # None
         /\ (events[c] = None \/ events'[c].created_at > events[c].created_at)]_vars

\* the cell holds Z although a connected relay delivered the older Y to
\* its loader, which holds it, and the store of an earlier session held S
C1_Witness ==
  \E c \in Cords, r \in Relays :
    /\ events[c] # None
    /\ events[c].id = "Z"
    /\ r \in upstream[c]
    /\ lEvents[r][c] # None
    /\ lEvents[r][c].id = "Y"
    /\ store[c] # None
    /\ store[c].event.id = "S"

C3_SameFinalObject == MergeDone => mA = mB

\* C3 amended: whatever the delivery order of one multiset (repeated
\* deliveries included), the central cell ends with an object of the same
\* created_at, the maximum of the multiset, and with the same object when
\* only one object of the multiset carries that maximum.
C3_SameFinalTimestamp ==
  MergeDone =>
    LET objs == SeqToSet(mIn)
        top == { o \in objs : o.created_at = SetMax(TimesOf(objs)) }
    IN  /\ mA.created_at = SetMax(TimesOf(objs))
        /\ mB.created_at = mA.created_at
        /\ (Cardinality(top) = 1 => mA = mB)

\* three objects of distinct created_at, delivered to B in another order
\* than to A and one of them twice
C3_Witness ==
  /\ MergeDone
  /\ Len(mIn) = 3
  /\ Cardinality(TimesOf(SeqToSet(mIn))) = 3
  /\ Len(mOrdB) = 4
  /\ mOrdB[1] # 1
  /\ mA = mB


\* ----------------------------------------------------------------- C4..C7
TripleOf(cord) ==
  CHOOSE c \in CoordInputs : createCoordinate(c.kind, c.pubkey, c.d) = cord

\* the db.get requests for cord that are outstanding
GetsInFlight(cord) ==
  { i \in 1..Len(dbQueue) : dbQueue[i].op = "get" /\ dbQueue[i].addr = cord }

\* what a loader owns
LoaderState == <<loaders, upstream, lEvents, requestNext, requested, subState, query>>

\* C4: at most one db.get per coordinate is outstanding, and exactly one
\* while the promise of the dedupe map is pending; a requestEvent call made
\* on an empty cell while the read is pending issues no db request and adds
\* its callback to that promise; when the read resolves, every callback
\* sees its outcome: on a miss each caller's relays are asked, on a hit none.
C4_OneReadInFlight ==
  /\ [](\A c \in Cords :
          /\ Cardinality(GetsInFlight(c)) <= 1
          /\ (loadCacheDedupe[c] = "pending" <=> Cardinality(GetsInFlight(c)) = 1)
          /\ (loadCacheDedupe[c] # "pending" => thens[c] = <<>>))
  /\ [][\A rl \in RelayLists, x \in CoordInputs, a \in BOOLEAN :
          LET c == createCoordinate(x.kind, x.pubkey, x.d)
          IN  (RequestEvent(rl, x, a) /\ events[c] = None /\ loadCacheDedupe[c] = "pending") =>
                /\ dbQueue' = dbQueue
                /\ Len(thens'[c]) = Len(thens[c]) + 1
                /\ thens'[c][Len(thens'[c])].relays = rl]_vars
  /\ [][DbGetOk =>
          LET c == Head(dbQueue).addr
          IN  IF store[c] = None
                THEN \A i \in 1..Len(thens[c]) :
                       \A r \in SeqToSet(thens[c][i].relays) :
                         r \in loaders' /\ r \in upstream'[c]
                ELSE /\ UNCHANGED LoaderState
                     /\ events'[c] # None]_vars

\* two callers wait for one read
C4_Witness ==
  \E c \in Cords :
    /\ loadCacheDedupe[c] = "pending"
    /\ Len(thens[c]) = 2
    /\ thens[c][1].relays # thens[c][2].relays
    /\ Cardinality(GetsInFlight(c)) = 1
    /\ nRequests = 2

\* a caller waits for a read of a coordinate that the store does not hold
Waiting(c, rl) ==
  /\ loadCacheDedupe[c] = "pending"
  /\ store[c] = None
  /\ \E i \in 1..Len(thens[c]) : thens[c][i].relays = rl

\* the coordinate is in the requested map and in the query of the loader of
\* every relay of rl whose cell for it is empty
InFlightAtAll(c, rl) ==
  \A r \in SeqToSet(rl) :
    lEvents[r][c] = None =>
      /\ r \in loaders
      /\ MapHas(requested[r], c)
      /\ QuerySelects(query[r], TripleOf(c))

\* the service with fewer calls and objects than Spec allows, the interval
\* of update() firing again and again and IndexedDB answering its requests
LiveNext ==
  \/ \E rl \in RelayLists, c \in CoordInputs, a \in BOOLEAN :
       nRequests < MaxLiveRequests /\ RequestEvent(rl, c, a)
  \/ \E e \in Objects : nEvents < MaxLiveEvents /\ Ingest(e)
  \/ \E r \in Relays, e \in Objects : nEvents < MaxLiveEvents /\ RelayEvent(r, e)
  \/ \E r \in Relays : RelayEOSE(r)
  \/ Update
  \/ DbGetOk
  \/ DbGetFail
  \/ DbPutOk
  \/ DbPutFail

LiveSpec == Init /\ [][LiveNext]_vars /\ WF_vars(Update) /\ WF_vars(DbStep)

C6_NoRequestBeforeMiss ==
  /\ [][\A rl \in RelayLists, x \in CoordInputs :
          LET c == createCoordinate(x.kind, x.pubkey, x.d)
          IN  RequestEvent(rl, x, FALSE) =>
                /\ UNCHANGED LoaderState
                /\ events[c] # None =>
                     UNCHANGED <<dbQueue, loadCacheDedupe, thens, events, store>>]_vars
  /\ [][(DbGetOk /\ store[Head(dbQueue).addr] # None) => UNCHANGED LoaderState]_vars
  /\ [][(\E r \in Relays : ~(SeqToSet(requestNext'[r]) \subseteq SeqToSet(requestNext[r]))) =>
          \/ \E rl \in RelayLists, x \in CoordInputs : RequestEvent(rl, x, TRUE)
          \/ DbGetOk /\ store[Head(dbQueue).addr] = None]_vars

\* the read found the entry of the earlier session: the cell holds it and
\* no loader exists
C6_Witness ==
  \E c \in Cords :
    /\ nRequests > 0
    /\ events[c] # None
    /\ events[c].id = "S"
    /\ loadCacheDedupe[c] = "none"
    /\ loaders = {}

\* C7: a requestEvent call with alwaysRequest leaves every listed relay
\* with a loader that the central cell is connected to and whose
\* requestNext holds the coordinate if its cell is empty, whatever the
\* central cell, the store and the dedupe map hold.
C7_AlwaysRequestAsksAll ==
  [][\A rl \in RelayLists, x \in CoordInputs :
       LET c == createCoordinate(x.kind, x.pubkey, x.d)
       IN  RequestEvent(rl, x, TRUE) =>
             \A r \in SeqToSet(rl) :
               /\ r \in loaders'
               /\ r \in upstream'[c]
               /\ lEvents'[r][c] = None => c \in SeqToSet(requestNext'[r])]_vars

\* the coordinate was queued at both relays although the cell holds a value
\* and the store has held an entry all along, which no read has looked at
C7_Witness ==
  \E c \in Cords :
    /\ events[c] # None
    /\ events[c].id = "X"
    /\ store[c] # None
    /\ store[c].event.id = "S"
    /\ loadCacheDedupe[c] = "none"
    /\ \A r \in Relays : c \in SeqToSet(requestNext[r])

\* the puts that the step has added to the queue for coordinate c
NewPuts(c) ==
  LET base == IF DbStep THEN Tail(dbQueue) ELSE dbQueue
      new == SubSeq(dbQueue', Len(base) + 1, Len(dbQueue'))
  IN  SelectSeq(new, LAMBDA o : o.op = "put" /\ o.addr = c)

\* the puts waiting in the queue for coordinate c
PendingPuts(c) == SelectSeq(dbQueue, LAMBDA o : o.op = "put" /\ o.addr = c)

\* the created_at of the object in a cell, below every object when empty
CellTime(v) == IF v = None THEN -1 ELSE v.created_at

\* C8: in every step the puts issued for a coordinate are the objects its
\* central cell accepted in that step: none when the cell keeps its value,
\* otherwise one per accepted object, each newer than the one before, under
\* the key that is the object's coordinate, the last being the new value of
\* the cell; and once no put is outstanding and none has failed, the entry
\* of the store holds the object of the cell.
C8_WriteIffAccepted ==
  /\ [][\A c \in Cords :
          LET puts == NewPuts(c)
          IN  /\ (events'[c] # events[c]) <=> (puts # <<>>)
              /\ puts # <<>> =>
                   /\ puts[Len(puts)].event = events'[c]
                   /\ puts[1].event.created_at > CellTime(events[c])
                   /\ \A i \in 1..Len(puts) :
                        /\ getEventCoordinate(puts[i].event) = c
                        /\ i > 1 => puts[i].event.created_at > puts[i - 1].event.created_at]_vars
  /\ [](\A c \in Cords :
          (events[c] # None /\ PendingPuts(c) = <<>> /\ c \notin putFailed) =>
            (store[c] # None /\ store[c].event = events[c]))

\* X came from relay r1, then Y from relay r2, then Z was ingested: the
\* cell holds Z and, all writes done, so does the store
C8_Witness ==
  \E c \in Cords :
    /\ events[c] # None
    /\ events[c].id = "Z"
    /\ \A r \in Relays : r \in upstream[c] /\ lEvents[r][c] # None
    /\ lEvents["r1"][c].id = "X"
    /\ lEvents["r2"][c].id = "Y"
    /\ dbQueue = <<>>
    /\ putFailed = {}
    /\ store[c] # None
    /\ store[c].event.id = "Z"

\* the coordinate is asked of the loader of relay r: the loader exists and,
\* if its cell for c is empty, c is queued or in flight there
AskedAt(c, r) ==
  /\ r \in loaders'
  /\ lEvents'[r][c] = None =>
       (c \in SeqToSet(requestNext'[r]) \/ MapHas(requested'[r], c))

\* C9: when the read of the store for a coordinate fails, every call that
\* waits for it has the coordinate asked of the loaders of its relays, as
\* after a miss, and the dedupe map lets a later call start a new read.
C9_ReadFailureIsMiss ==
  [][DbGetFail =>
       LET c == Head(dbQueue).addr
       IN  /\ loadCacheDedupe'[c] = "none"
           /\ \A i \in 1..Len(thens[c]) :
                \A r \in SeqToSet(thens[c][i].relays) : AskedAt(c, r)]_vars

\* the state of the memory with the store as if every write had succeeded
AsIfWritten ==
  [State EXCEPT !.putFailed = {},
                !.store = [c \in Cords |->
                             IF events[c] # None /\ PendingPuts(c) = <<>>
                               THEN [event |-> events[c], created |-> now \div 1000]
                               ELSE store[c]]]

\* the part of a state that lives in memory
Memory(s) ==
  <<s.events, s.loaders, s.upstream, s.loadCacheDedupe, s.thens, s.lEvents,
    s.requestNext, s.requested, s.subState, s.query>>

\* C10: a failing put changes nothing in memory and nothing in the store;
\* the cell then holds an object at least as new as the one whose write
\* failed, and that very object when no later write for the coordinate is
\* outstanding; and in every state each merge (ingest, or delivery by a
\* relay) leaves the memory as it would with all writes having succeeded.
C10_WriteFailureKeepsMemory ==
  /\ [][DbPutFail =>
          LET op == Head(dbQueue)
          IN  /\ Memory(State)' = Memory(State)
              /\ store' = store
              /\ events'[op.addr] # None
              /\ events'[op.addr].created_at >= op.event.created_at
              /\ PendingPuts(op.addr)' = <<>> => events'[op.addr] = op.event]_vars
  /\ [](\A e \in Objects :
          /\ Memory(handleEvent(State, e)) = Memory(handleEvent(AsIfWritten, e))
          /\ \A r \in Relays :
               Memory(loaderHandleEvent(State, r, e)) =
                 Memory(loaderHandleEvent(AsIfWritten, r, e)))

\* the write of X failed, the cell holds X and the store has no entry; a
\* connected loader holds the older Y, which the cell has not taken
C10_Witness ==
  \E c \in Cords :
    /\ c \in putFailed
    /\ dbQueue = <<>>
    /\ events[c] # None
    /\ events[c].id = "X"
    /\ store[c] = None
    /\ \E r \in upstream[c] : lEvents[r][c] # None /\ lEvents[r][c].id = "Y"

\* ------------------------------------------------- coordinate round trip
\* Triples (kind, pubkey, d) as a caller can pass them: d is undefined
\* (hasD = FALSE), the empty string or a non-empty string. A pair of triples
\* is encoded by createCoordinate and taken apart as update() does.
CoordKinds == {0, 1, 10002, 30023}
CoordPubkeys == {<<"a">>, <<"a", "b", "c">>}
CoordTags == {<<>>, <<"d">>, <<"d", "1">>}

CoordTriples ==
  { [kind |-> k, pubkey |-> p, hasD |-> TRUE, d |-> d] :
      k \in CoordKinds, p \in CoordPubkeys, d \in CoordTags }
  \cup { [kind |-> k, pubkey |-> p, hasD |-> FALSE, d |-> <<>>] :
           k \in CoordKinds, p \in CoordPubkeys }

\* createCoordinate(kind, pubkey, d) on a triple: undefined and "" are both
\* falsy in `d ? ":" + d : ""`
EncodeTriple(c) == createCoordinate(c.kind, c.pubkey, c.d)

\* const [kindStr, pubkey, d] = cord.split(":"); kind = parseInt(kindStr):
\* d is undefined when the string has fewer than three parts
DecodeTriple(cord) ==
  Strict(Split(cord), LAMBDA parts :
    [kind |-> parseInt(parts[1]),
     pubkey |-> IF Len(parts) >= 2 THEN parts[2] ELSE <<>>,
     hasD |-> Len(parts) >= 3,
     d |-> IF Len(parts) >= 3 THEN parts[3] ELSE <<>>])

CoordInit ==
  /\ SInit
  /\ mIn = <<>>
  /\ mA = None
  /\ mB = None
  /\ mPosA = 0
  /\ mOrdB = <<>>
  /\ cIn \in CoordTriples \X CoordTriples
  /\ cStr = <<>>
  /\ cOut = <<>>

CoordEncode ==
  /\ cStr = <<>>
  /\ cStr' = <<EncodeTriple(cIn[1]), EncodeTriple(cIn[2])>>
  /\ UNCHANGED <<svars, mIn, mA, mB, mPosA, mOrdB, cIn, cOut>>

CoordDecode ==
  /\ cStr # <<>>
  /\ cOut = <<>>
  /\ cOut' = <<DecodeTriple(cStr[1]), DecodeTriple(cStr[2])>>
  /\ UNCHANGED <<svars, mIn, mA, mB, mPosA, mOrdB, cIn, cStr>>

CoordNext == CoordEncode \/ CoordDecode

SpecCoord == CoordInit /\ [][CoordNext]_vars

\* C16 as stated: every triple decodes to itself, and two triples that
\* differ in a field have different strings.
C16_RoundTripAll ==
  /\ cOut # <<>> => cOut = cIn
  /\ (cStr # <<>> /\ cIn[1] # cIn[2]) => cStr[1] # cStr[2]

\* a triple whose d is the empty string
EmptyTag(c) == c.hasD /\ c.d = <<>>

\* the triple with an undefined d in place of an empty one
Canonical(c) == IF EmptyTag(c) THEN [c EXCEPT !.hasD = FALSE] ELSE c

\* C16: a triple whose d is undefined or non-empty decodes to itself; one
\* whose d is the empty string decodes to the triple with d undefined; two
\* triples have the same string exactly when they are equal up to that.
C16_RoundTrip ==
  /\ cOut # <<>> => \A i \in 1..2 : cOut[i] = Canonical(cIn[i])
  /\ cStr # <<>> => ((cStr[1] = cStr[2]) <=> (Canonical(cIn[1]) = Canonical(cIn[2])))

\* (1, "abc", undefined) and (30023, "a", "d1") have gone through encoding
\* and decoding
C16_Witness ==
  /\ cOut # <<>>
  /\ cIn[1] = [kind |-> 1, pubkey |-> <<"a", "b", "c">>, hasD |-> FALSE, d |-> <<>>]
  /\ cIn[2] = [kind |-> 30023, pubkey |-> <<"a">>, hasD |-> TRUE, d |-> <<"d", "1">>]
  /\ cStr[1] = <<"1", ":", "a", "b", "c">>
  /\ cStr[2] = <<"3", "0", "0", "2", "3", ":", "a", ":", "d", "1">>
  /\ cOut = cIn

\* ----------------------------------------------------- one loader in time
\* The loader of one relay with coordinates of two kinds, with and without
\* d, asked for through requestEventFromRelays, with the clock advancing by
\* one minute or by one minute and a millisecond.
MaxLoaderRequests == 3
MaxLoaderEvents == 2

LoaderRelays == {"r1"}

LoaderCoordInputs ==
  { [kind |-> 30023, pubkey |-> <<"a">>, d |-> <<"d">>],
    [kind |-> 30023, pubkey |-> <<"b">>, d |-> <<>>],
    [kind |-> 10002, pubkey |-> <<"a">>, d |-> <<>>] }

LoaderCords == { createCoordinate(c.kind, c.pubkey, c.d) : c \in LoaderCoordInputs }

LoaderObjects == { Object(c, i) : c \in LoaderCoordInputs, i \in {"X", "Y"} }

LoaderInit ==
  /\ events = [c \in LoaderCords |-> None]
  /\ loaders = {}
  /\ upstream = [c \in LoaderCords |-> {}]
  /\ loadCacheDedupe = [c \in LoaderCords |-> "none"]
  /\ thens = [c \in LoaderCords |-> <<>>]
  /\ store = [c \in LoaderCords |-> None]
  /\ dbQueue = <<>>
  /\ lEvents = [r \in Relays |-> [c \in LoaderCords |-> None]]
  /\ requestNext = [r \in Relays |-> <<>>]
  /\ requested = [r \in Relays |-> <<>>]
  /\ subState = [r \in Relays |-> "CLOSED"]
  /\ query = [r \in Relays |-> <<>>]
  /\ now = 0
  /\ initCall \in BOOLEAN
  /\ delivered = [c \in LoaderCords |-> 0]
  /\ putFailed = {}
  /\ lastUpdate = [r \in Relays |-> NoCalls]
  /\ nEvents = 0
  /\ nRequests = 0
  /\ MIdle

\* requestEventFromRelays([r], kind, pubkey, d), from requestEvent or from
\* the callback of a read that missed
LoaderRequest(r, c) ==
  /\ nRequests < MaxLoaderRequests
  /\ Commit(requestEventFromRelays(State, <<r>>, c.kind, c.pubkey, c.d))
  /\ nRequests' = nRequests + 1
  /\ UNCHANGED <<nEvents, mvars>>

LoaderNext ==
  \/ \E r \in LoaderRelays, c \in LoaderCoordInputs : LoaderRequest(r, c)
  \/ \E r \in LoaderRelays, e \in LoaderObjects : nEvents < MaxLoaderEvents /\ RelayEvent(r, e)
  \/ \E r \in LoaderRelays : RelayEOSE(r)
  \/ Update
  \/ \E d \in TickSteps : Tick(d)

SpecLoader == LoaderInit /\ [][LoaderNext]_vars

\* the (kind, pubkey, d) that a coordinate string of the loader was made of
LoaderTripleOf(cord) ==
  CHOOSE c \in LoaderCoordInputs : createCoordinate(c.kind, c.pubkey, c.d) = cord

\* the date of the entry of cord in a requested map
StampOf(m, cord) == m[CHOOSE i \in 1..Len(m) : m[i].cord = cord].date

\* the entry is more than one minute old at time t
TimedOut(e, t) == t - e.date > TimeoutMs

\* the query has exactly one pattern of the coordinate's kind, and that
\* pattern lists the coordinate's author and, if it has one, its d
InFilter(q, cord) ==
  LET c == LoaderTripleOf(cord)
      ofKind == { i \in 1..Len(q) : c.kind \in SeqToSet(q[i].kinds) }
  IN  /\ Cardinality(ofKind) = 1
      /\ \A i \in ofKind :
           /\ q[i].kinds = <<c.kind>>
           /\ c.pubkey \in SeqToSet(q[i].authors)
           /\ c.d # <<>> => c.d \in SeqToSet(q[i].dTags)

\* C11 as stated: after update() every coordinate that was in requestNext
\* is in requested and in the query.
C11_DesiredInFlightAfterUpdate ==
  [][Update =>
       \A r \in loaders : \A c \in SeqToSet(requestNext[r]) :
         MapHas(requested'[r], c) /\ InFilter(query'[r], c)]_vars

\* C12: after update() at time now, requested holds no entry whose date is
\* more than one minute before now, every entry that was in requested with
\* a date within the last minute is still there with that date, and no cell
\* of a loader or of the service has changed.
C12_TimeoutPrunes ==
  [][Update =>
       /\ \A r \in loaders :
            /\ \A i \in 1..Len(requested'[r]) : ~TimedOut(requested'[r][i], now)
            /\ \A i \in 1..Len(requested[r]) :
                 ~TimedOut(requested[r][i], now) =>
                   \E j \in 1..Len(requested'[r]) : requested'[r][j] = requested[r][i]
       /\ UNCHANGED <<lEvents, events>>]_vars

\* update() has removed an entry by timeout and kept another, and every
\* cell is empty
C12_Witness ==
  /\ lastUpdate["r1"].expired # {}
  /\ requested["r1"] # <<>>
  /\ \A c \in LoaderCords : lEvents["r1"][c] = None /\ events[c] = None

\* C13 as stated: a coordinate that the latest update() removed by timeout
\* and whose cell is still empty is in requested and in the query of an
\* open subscription after the update() that follows.
C13_RetriedAfterTimeout ==
  [][Update =>
       \A r \in loaders : \A c \in lastUpdate[r].expired :
         lEvents[r][c] = None =>
           /\ MapHas(requested'[r], c)
           /\ InFilter(query'[r], c)
           /\ subState'[r] = "OPEN"]_vars

\* the coordinates of requestNext are all in requested and no entry of
\* requested is more than a minute old
NothingPending(r) ==
  /\ SeqToSet(requestNext[r]) \subseteq MapKeys(requested[r])
  /\ \A i \in 1..Len(requested[r]) : ~TimedOut(requested[r][i], now)

\* C14: requestEvent on a loader touches neither requested, the query nor
\* the subscription; an update() that finds in requestNext only coordinates
\* that are in requested, and no entry timed out, calls nothing on the
\* subscription and leaves requested, dates included, the query and the
\* subscription state as they are; and requested never holds a coordinate
\* twice.
C14_Coalescing ==
  /\ [][\A r \in LoaderRelays, c \in LoaderCoordInputs :
          LoaderRequest(r, c) =>
            /\ UNCHANGED <<requested, query, subState>>
            /\ Cardinality({ i \in 1..Len(requestNext'[r]) :
                   requestNext'[r][i] = createCoordinate(c.kind, c.pubkey, c.d) }) <= 1]_vars
  /\ [][Update =>
          \A r \in loaders :
            NothingPending(r) =>
              /\ lastUpdate'[r] = NoCalls
              /\ requested'[r] = requested[r]
              /\ query'[r] = query[r]
              /\ subState'[r] = subState[r]]_vars
  /\ [](\A r \in Relays : \A i, j \in 1..Len(requested[r]) :
          requested[r][i].cord = requested[r][j].cord => i = j)

\* one coordinate was asked for three times, twice while it was in flight;
\* the update() after that called nothing: one entry with the first date
C14_Witness ==
  \E c \in LoaderCords :
    /\ nRequests = 3
    /\ \A x \in LoaderCords \ {c} : upstream[x] = {}
    /\ now = 60000
    /\ requested["r1"] = <<[cord |-> c, date |-> 0]>>
    /\ requestNext["r1"] = <<>>
    /\ lastUpdate["r1"] = NoCalls
    /\ subState["r1"] = "OPEN"
    /\ lEvents["r1"][c] = None

\* C17: when the loader of r receives an object, requested[r] is what it
\* was without the entry of the object's coordinate, whether or not the
\* cell takes the object, and requestNext, the query and the state of the
\* subscription are unchanged.
C17_ReceiptAbsolves ==
  [][\A r \in LoaderRelays, e \in LoaderObjects :
       RelayEvent(r, e) =>
         /\ ~MapHas(requested'[r], getEventCoordinate(e))
         /\ requested'[r] = MapDelete(requested[r], getEventCoordinate(e))
         /\ UNCHANGED <<requestNext, query, subState>>
         /\ \A x \in Relays \ {r} : requested'[x] = requested[x]]_vars

\* r1 delivered X of one coordinate and then an object that is not newer:
\* the cell holds X, one write was issued, the coordinate is not in flight
C17_Witness ==
  \E c \in LoaderCords :
    /\ nEvents = 2
    /\ lEvents["r1"][c] # None
    /\ lEvents["r1"][c].id = "X"
    /\ \A x \in LoaderCords \ {c} : lEvents["r1"][x] = None
    /\ Len(dbQueue) = 1
    /\ ~MapHas(requested["r1"], c)
    /\ lastUpdate["r1"].expired = {}
    /\ now = 0

\* C18: an EOSE of the subscription of r empties requested[r] and leaves
\* requestNext, every cell, the query and the state of the subscription as
\* they are.
C18_EoseClearsInFlight ==
  [][\A r \in LoaderRelays :
       RelayEOSE(r) =>
         /\ requested'[r] = <<>>
         /\ UNCHANGED <<requestNext, lEvents, events, query, subState>>
         /\ \A x \in Relays \ {r} : requested'[x] = requested[x]]_vars

\* after an EOSE: nothing in flight, the subscription open with its query,
\* a coordinate waiting in requestNext and no object received
C18_Witness ==
  /\ requested["r1"] = <<>>
  /\ subState["r1"] = "OPEN"
  /\ query["r1"] # <<>>
  /\ requestNext["r1"] # <<>>
  /\ nEvents = 0
  /\ now = 0

\* update() of the loader of r has something to do: a coordinate to move
\* into requested or an entry to time out
HasChange(r) ==
  \/ \E c \in SeqToSet(requestNext[r]) : ~MapHas(requested[r], c)
  \/ \E i \in 1..Len(requested[r]) : TimedOut(requested[r][i], now)

\* C19: after an update() that moved a coordinate into requested or timed
\* an entry out, if requested is not empty the query is the one built from
\* all of requested (one pattern per kind, listing the author and the d of
\* every coordinate of the kind) and the subscription is OPEN; if requested
\* is empty the subscription is CLOSED.
C19_ChangeAppliesFilter ==
  [][Update =>
       \A r \in loaders :
         HasChange(r) =>
           IF requested'[r] # <<>>
             THEN /\ query'[r] = BuildQuery(requested'[r])
                  /\ \A c \in MapKeys(requested'[r]) : InFilter(query'[r], c)
                  /\ Len(query'[r]) =
                       Cardinality({ LoaderTripleOf(c).kind : c \in MapKeys(requested'[r]) })
                  /\ subState'[r] = "OPEN"
                  /\ "setQuery" \in lastUpdate'[r].calls
             ELSE subState'[r] = "CLOSED"]_vars

\* the three coordinates are in flight at r1 and the query has one pattern
\* for kind 10002 and one for kind 30023 with both authors and the one d
C19_Witness ==
  /\ MapKeys(requested["r1"]) = LoaderCords
  /\ requestNext["r1"] = <<>>
  /\ subState["r1"] = "OPEN"
  /\ "setQuery" \in lastUpdate["r1"].calls
  /\ Len(query["r1"]) = 2
  /\ query["r1"][1].kinds = <<10002>>
  /\ query["r1"][1].authors = <<<<"a">>>>
  /\ query["r1"][1].dTags = <<>>
  /\ query["r1"][2].kinds = <<30023>>
  /\ SeqToSet(query["r1"][2].authors) = {<<"a">>, <<"b">>}
  /\ query["r1"][2].dTags = <<<<"d">>>>

\* the loader fields of relay r in state s
LoaderFields(s, r) == <<s.requestNext[r], s.requested[r], s.query[r], s.subState[r]>>

\* C20: in every state, an update() of a loader followed at once by a
\* second one: the second calls nothing on the subscription and leaves
\* requestNext, requested with its dates, the query and the state of the
\* subscription as the first left them.
C20_UpdateIdempotent ==
  \A r \in Relays :
    LET first == loaderUpdate(State, r)
        second == loaderUpdate(first, r)
    IN  /\ second.lastUpdate[r] = NoCalls
        /\ LoaderFields(second, r) = LoaderFields(first, r)

\* an update() that opened the subscription was followed by one that found
\* nothing to do
C20_Witness ==
  /\ subState["r1"] = "OPEN"
  /\ requested["r1"] # <<>>
  /\ requestNext["r1"] = <<>>
  /\ lastUpdate["r1"] = NoCalls
  /\ nRequests = 1
  /\ nEvents = 0
  /\ now = 0

\* ------------------------------------------------------ pruning the store
\* The store of one coordinate with saves, pruneCache calls and the clock
\* at the instants around one day after the first save.
MaxPrunes == 2

\* dayjs().subtract(1, "day"), in milliseconds and in seconds
DayMs == 86400000
DaySec == 86400

\* instants of the wall clock (ms)
PruneTimes == {0, 86399000, 86400000, 86401000}

\* getAllKeysFromIndex("replaceableEvents", "created", upperBound(bound))
KeysOp(bound) == [op |-> "keys", bound |-> bound]

\* the readwrite transaction that deletes the keys
DeleteOp(keys, bound) == [op |-> "delete", keys |-> keys, bound |-> bound]

\* pruneCache up to its first await: the bound is
\* dayjs().subtract(1, "day").unix() at the time of the call
pruneCache(t) ==
  Strict(t, LAMBDA s :
    [s EXCEPT !.dbQueue = Append(@, KeysOp((s.now - DayMs) \div 1000))])

\* the keys of the records whose `created` is in IDBKeyRange.upperBound(bound),
\* a range that includes the bound
KeysUpTo(st, bound) ==
  { c \in DOMAIN st : st[c] # None /\ st[c].created <= bound }

\* getAllKeysFromIndex resolved: the transaction is opened and a delete is
\* issued for every key
keysResolved(t, op) ==
  Strict(t, LAMBDA s :
    [s EXCEPT !.dbQueue = Append(Tail(@), DeleteOp(KeysUpTo(s.store, op.bound), op.bound))])

\* the transaction committed: the records under the keys are gone
deleteResolved(t, op) ==
  Strict(t, LAMBDA s :
    [s EXCEPT !.dbQueue = Tail(@),
              !.store = [c \in DOMAIN @ |-> IF c \in op.keys THEN None ELSE @[c]]])

PruneInit == SInit /\ MIdle

\* pruneCache() is called: at start and by the hourly interval
PruneCache ==
  /\ nRequests < MaxPrunes
  /\ Commit(pruneCache(State))
  /\ nRequests' = nRequests + 1
  /\ UNCHANGED <<nEvents, mvars>>

\* the oldest outstanding IndexedDB request is the key read of a prune
DbKeysOk ==
  /\ dbQueue # <<>>
  /\ Head(dbQueue).op = "keys"
  /\ Commit(keysResolved(State, Head(dbQueue)))
  /\ UNCHANGED <<nEvents, nRequests, mvars>>

\* the oldest outstanding IndexedDB request is the delete transaction
DbDeleteOk ==
  /\ dbQueue # <<>>
  /\ Head(dbQueue).op = "delete"
  /\ Commit(deleteResolved(State, Head(dbQueue)))
  /\ UNCHANGED <<nEvents, nRequests, mvars>>

\* the clock moves to a later instant
PruneTick(t) ==
  /\ t > now
  /\ now' = t
  /\ UNCHANGED <<events, loaders, upstream, loadCacheDedupe, thens, store, dbQueue, lEvents,
                 requestNext, requested, subState, query, initCall, delivered,
                 putFailed, lastUpdate, nEvents, nRequests, mvars>>

PruneNext ==
  \/ PruneCache
  \/ DbKeysOk
  \/ DbDeleteOk
  \/ \E e \in Objects : Ingest(e)
  \/ DbPutOk
  \/ \E t \in PruneTimes : PruneTick(t)

SpecPrune == PruneInit /\ [][PruneNext]_vars

\* C15 as stated: the prune called at time `at` (seconds) removes the
\* entries saved more than a day before and no other: an entry saved a day
\* before or later is still there when the prune has run.
C15_PruneDeletesOnlyOlder ==
  [][DbDeleteOk =>
       LET at == Head(dbQueue).bound + DaySec
       IN  \A c \in Cords :
             store[c] # None =>
               IF at - store[c].created > DaySec
                 THEN store'[c] = None
                 ELSE store'[c] = store[c]]_vars

\* a prune leaves an entry alone that was saved after the prune was called
C15_FreshEntrySurvives ==
  [][DbDeleteOk =>
       \A c \in Cords :
         (store[c] # None /\ store[c].created > Head(dbQueue).bound + DaySec) =>
           store'[c] = store[c]]_vars

\* ------------------------------------------------ the calls on a loader
\* The loader of one relay with getEvent and requestEvent calls, objects
\* and EOSE from the relay and update(), at one instant.
LoaderGetEvent(r, c) ==
  /\ r \in loaders
  /\ nRequests < MaxLoaderRequests
  /\ Commit(loaderGetEvent(State, r, c.kind, c.pubkey, c.d))
  /\ nRequests' = nRequests + 1
  /\ UNCHANGED <<nEvents, mvars>>

LoaderCallsNext ==
  \/ \E r \in LoaderRelays, c \in LoaderCoordInputs : LoaderRequest(r, c)
  \/ \E r \in LoaderRelays, c \in LoaderCoordInputs : LoaderGetEvent(r, c)
  \/ \E r \in LoaderRelays, e \in LoaderObjects : nEvents < MaxLoaderEvents /\ RelayEvent(r, e)
  \/ \E r \in LoaderRelays : RelayEOSE(r)
  \/ Update

SpecLoaderCalls == LoaderInit /\ [][LoaderCallsNext]_vars

\* C21: getEvent changes none of requestNext, requested, the query and the
\* subscription state; requestEvent adds the coordinate to requestNext when
\* the loader's cell of it has no value and changes none of the four when
\* the cell has one.
C21_GetAndRequestFrame ==
  [][\A r \in LoaderRelays, c \in LoaderCoordInputs :
       LET cord == createCoordinate(c.kind, c.pubkey, c.d)
       IN  /\ LoaderGetEvent(r, c) =>
                UNCHANGED <<requestNext, requested, query, subState, lEvents>>
           /\ LoaderRequest(r, c) =>
                /\ UNCHANGED <<requested, query, subState, lEvents>>
                /\ IF lEvents[r][cord] = None
                     THEN /\ cord \in SeqToSet(requestNext'[r])
                          /\ SeqToSet(requestNext'[r]) = SeqToSet(requestNext[r]) \cup {cord}
                     ELSE requestNext' = requestNext]_vars

\* requestEvent was called for a coordinate whose loader cell had a value
\* (the central cell, connected without replay, is still empty), and the
\* loader has nothing to ask for
C21_Witness ==
  \E c \in LoaderCords :
    /\ lEvents["r1"][c] # None
    /\ "r1" \in upstream[c]
    /\ events[c] = None
    /\ ~initCall
    /\ requestNext["r1"] = <<>>
    /\ requested["r1"] = <<>>

\* C22: a coordinate that is in requestNext and not (any more) in requested
\* is, after update(), in requested with the date of that update(), the
\* query is set anew and lists it, and the subscription is open, opened by
\* this update() if it was not; an update() that finds nothing new in
\* requestNext and nothing timed out does not set the query.
C22_NewRequestReapplies ==
  /\ [][Update =>
          \A r \in loaders : \A c \in SeqToSet(requestNext[r]) :
            ~MapHas(requested[r], c) =>
              /\ MapHas(requested'[r], c)
              /\ StampOf(requested'[r], c) = now
              /\ "setQuery" \in lastUpdate'[r].calls
              /\ InFilter(query'[r], c)
              /\ subState'[r] = "OPEN"
              /\ subState[r] # "OPEN" => "open" \in lastUpdate'[r].calls]_vars
  /\ [][Update =>
          \A r \in loaders :
            NothingPending(r) => "setQuery" \notin lastUpdate'[r].calls]_vars

\* only one coordinate was ever asked for and no object came; its entry was
\* cleared by EOSE (the subscription stayed open); asked for again, the
\* latest update() has set the query without opening, and the entry has
\* the date of that update()
C22_Witness ==
  \E c \in LoaderCords :
    /\ nEvents = 0
    /\ \A x \in LoaderCords \ {c} : upstream[x] = {}
    /\ lEvents["r1"][c] = None
    /\ now = 60000
    /\ requested["r1"] = <<[cord |-> c, date |-> 60000]>>
    /\ subState["r1"] = "OPEN"
    /\ lastUpdate["r1"].calls = {"setQuery"}

\* ------------------------------------------- from coordinates to the query
\* Two coordinates are asked of one loader with requestEvent, update()
\* moves them to requested and builds the query from the keys of requested.
FilterKinds == {10002, 30023}
FilterPubkeys == {<<"a">>, <<"b">>}
FilterTags == {<<>>, <<"d">>, <<"x", ":", "y">>}

FilterTriples ==
  { [kind |-> k, pubkey |-> p, d |-> d] :
      k \in FilterKinds, p \in FilterPubkeys, d \in FilterTags }

FilterInit ==
  /\ SInit
  /\ mIn = <<>>
  /\ mA = None
  /\ mB = None
  /\ mPosA = 0
  /\ mOrdB = <<>>
  /\ cIn \in FilterTriples \X FilterTriples
  /\ cStr = <<>>
  /\ cOut = <<>>

\* requestEvent for both (the cells are empty), then the first loop of
\* update(): cStr is the requested map
FilterRequest ==
  /\ cStr = <<>>
  /\ cStr' = moveNext(SetAdd(SetAdd(<<>>, createCoordinate(cIn[1].kind, cIn[1].pubkey, cIn[1].d)),
                             createCoordinate(cIn[2].kind, cIn[2].pubkey, cIn[2].d)),
                      <<>>, now)
  /\ UNCHANGED <<svars, mIn, mA, mB, mPosA, mOrdB, cIn, cOut>>

\* the rest of update(): cOut is the query given to setQuery
FilterBuild ==
  /\ cStr # <<>>
  /\ cOut = <<>>
  /\ cOut' = BuildQuery(cStr)
  /\ UNCHANGED <<svars, mIn, mA, mB, mPosA, mOrdB, cIn, cStr>>

FilterNext == FilterRequest \/ FilterBuild

SpecFilter == FilterInit /\ [][FilterNext]_vars

\* C23 as stated: for every coordinate asked for with a d, the d is whole,
\* also when it contains ":", in the "#d" list of the query pattern of the
\* coordinate's kind.
C23_TagWithSeparatorInFilter ==
  cOut # <<>> =>
    \A i \in 1..2 :
      cIn[i].d # <<>> =>
        \E j \in 1..Len(cOut) :
          /\ cOut[j].kinds = <<cIn[i].kind>>
          /\ cIn[i].d \in SeqToSet(cOut[j].dTags)

\* C24 as stated: the object of a coordinate in the store is never
\* replaced by an object with a smaller created_at.
C24_StoreNeverGoesBack ==
  [][\A c \in Cords :
       (store[c] # None /\ store'[c] # None) =>
         store'[c].event.created_at >= store[c].event.created_at]_vars

\* C25 as stated: whatever writes come between the key read and the
\* delete of a prune, an entry that the delete removes was saved a day or
\* more before the moment of the delete.
C25_PruneKeepsEntriesInWindow ==
  [][DbDeleteOk =>
       \A c \in Cords :
         (store[c] # None /\ store'[c] = None) =>
           (now \div 1000) - store[c].created >= DaySec]_vars

\* the requested maps that hold each coordinate of the loader at most once
RequestedMaps ==
  { m \in UNION { [1..n -> [cord : LoaderCords, date : {0}]] : n \in 0..Cardinality(LoaderCords) } :
      \A i, j \in 1..Len(m) : m[i].cord = m[j].cord => i = j }

\* the query is the one update() builds from a map with at least the keys
\* of req
BuiltFromSuperset(q, req) ==
  \E m \in RequestedMaps :
    /\ MapKeys(req) \subseteq MapKeys(m)
    /\ q = BuildQuery(m)

\* C26: while requested of a loader is not empty, its subscription is open
\* and its query is one built from requested or from a larger map.
C26_InFlightImpliesOpen ==
  \A r \in Relays :
    requested[r] # <<>> =>
      /\ subState[r] = "OPEN"
      /\ BuiltFromSuperset(query[r], requested[r])

\* three coordinates went into the query, an object has come for one of
\* them: two are left in requested under the query of three
C26_Witness ==
  /\ Len(requested["r1"]) = 2
  /\ subState["r1"] = "OPEN"
  /\ \E c \in LoaderCords : lEvents["r1"][c] # None /\ ~MapHas(requested["r1"], c)
  /\ \E m \in RequestedMaps : Len(m) = 3 /\ query["r1"] = BuildQuery(m)

\* C27 as stated: the query that update() sets selects every coordinate of
\* requested: some pattern has the coordinate's kind, lists its author and,
\* if the pattern has a "#d" list, lists its d.
C27_FilterSelectsInFlight ==
  [][Update =>
       \A r \in loaders :
         "setQuery" \in lastUpdate'[r].calls =>
           \A c \in MapKeys(requested'[r]) :
             QuerySelects(query'[r], LoaderTripleOf(c))]_vars

====
